---- MODULE Spec2Model ----
(***************************************************************************)
(* Model of the matroska demuxer of modules/demux/mkv/mkv.cpp: the demux   *)
(* step (Demux), the block decoder (BlockDecode), the seek entry (Seek)    *)
(* and the seek-issuing control requests (Control).                        *)
(*                                                                         *)
(* Times are in microseconds (mtime_t).  f_duration is the float of        *)
(* demux_sys_t, in milliseconds; every value it takes here is integral.    *)
(* A fraction f_percent is held in halves: 2 is 1.0, 3 is 1.5, -2 is -1.0. *)
(***************************************************************************)
EXTENDS Integers, Sequences, FiniteSets, TLC

VARIABLES
    tracks,              \* p_segment->tracks: the static part of each mkv_track_t
    segment,             \* the static part of the current matroska_segment_c
    es_state,            \* the sink's answer to ES_OUT_GET_ES_STATE, per track
    i_last_dts,          \* mkv_track_t::i_last_dts, per track
    b_inited,            \* mkv_track_t::b_inited, per track
    act,                 \* history: what was emitted per track since it was last seen inactive
    i_block,             \* read position of the segment: blocks consumed so far
    i_pts,               \* demux_sys_t::i_pts
    i_start_pts,         \* demux_sys_t::i_start_pts
    i_pcr,               \* demux_sys_t::i_pcr
    i_mk_chapter_time,   \* demux_sys_t::i_mk_chapter_time
    f_duration,          \* demux_sys_t::f_duration
    i_current_edition,   \* virtual_segment_c::i_current_edition
    p_current_vchapter,  \* virtual_segment_c::p_current_vchapter (0 is NULL)
    i_current_title,     \* demux_sys_t::i_current_title
    info,                \* demux_t::info (i_title, i_seekpoint, i_update)
    call,                \* history: the last call of the host and what it did
    lock,                \* holder of demux_sys_t::lock_demuxer
    pc,                  \* position of the demux thread and of the control thread
    sink_pcr,            \* history: the last clock reference the sink was given
    open                 \* Open: its position, what it found, what it holds, its return

vars == << tracks, segment, es_state, i_last_dts, b_inited, act, i_block, i_pts,
           i_start_pts, i_pcr, i_mk_chapter_time, f_duration, i_current_edition,
           p_current_vchapter, i_current_title, info, call, lock, pc, sink_pcr,
           open >>

----------------------------------------------------------------------------
(* Program constants *)

VLC_TS_INVALID == 0
VLC_TS_0 == 1
PcrThreshold == 300000

(* Bounds of the model *)

NumBlocks == 2      \* blocks in the segment's stream
MaxFrames == 2      \* grouped (laced) frames per block
MaxTc == 1          \* block timecodes are 0 .. MaxTc steps
MaxSize == 2        \* size of one grouped frame, in bytes
MaxAttachments == 2 \* attachments the file stores
MaxChapters == 3    \* physical chapters of an ordered edition

(* One step of block timecode, title length and chapter boundary, in us. *)
Tick(k) == k * 100000

NULL == 0

----------------------------------------------------------------------------
(* Static data: tracks *)

Track(cat, es, init, dur, regime, packetized, codec, delay) ==
    [ cat |-> cat,                 \* fmt.i_cat
      p_es |-> es,                 \* p_es != NULL
      i_data_init |-> init,        \* size of the stored initialization payload
      i_default_duration |-> dur,
      regime |-> regime,           \* "dts_only" (b_dts_only), "pts_only" (b_pts_only), "general"
      b_packetized |-> packetized, \* fmt.b_packetized
      i_codec |-> codec,           \* "cook" stands for VLC_CODEC_COOK / VLC_CODEC_ATRAC3
      i_codec_delay |-> delay ]

VideoGeneral == Track("video", TRUE, 1, Tick(1), "general", TRUE, "other", 0)
VideoDtsOnly == Track("video", TRUE, 0, Tick(1), "dts_only", TRUE, "other", 0)
VideoPtsOnly == Track("video", TRUE, 1, 0, "pts_only", FALSE, "other", 0)
VideoUnbound == Track("video", FALSE, 1, Tick(1), "general", TRUE, "other", 0)
AudioPlain   == Track("audio", TRUE, 0, 0, "general", TRUE, "other", 0)
AudioInit    == Track("audio", TRUE, 1, Tick(1), "general", TRUE, "other", 0)

\* One track: a video track of each timestamp regime or an audio track
\* (b_dts_only and b_pts_only are flags of video codecs), of each default
\* duration (known or not) and packetization.
StampSetups ==
    { << Track(cat, TRUE, 0, dur, regime, pk, "other", 0) >> :
        cat \in { "video", "audio" }, dur \in { 0, Tick(1) },
        regime \in { "dts_only", "pts_only", "general" }, pk \in BOOLEAN }
    \ { << Track("audio", TRUE, 0, dur, regime, pk, "other", 0) >> :
          dur \in { 0, Tick(1) }, regime \in { "dts_only", "pts_only" }, pk \in BOOLEAN }

\* The track lists a segment may carry.
DecodeSetups == { << VideoGeneral >>, << AudioInit >>, << VideoPtsOnly >> }
PlaySetups == { << VideoGeneral, VideoUnbound >> }

TrackIds == DOMAIN tracks

----------------------------------------------------------------------------
(* Static data: the segment, its editions (titles) and virtual chapters *)

IndexEntry(pos, time) == [ i_position |-> pos, i_mk_time |-> time ]

\* b_cues, indexes: of matroska_segment_c; size: stream_Size( p_demux->s );
\* seek_percent: the "mkv-seek-percent" option.
Segment(cues, indexes, size, percent) ==
    [ present |-> TRUE, b_cues |-> cues, indexes |-> indexes, size |-> size,
      seek_percent |-> percent ]

\* CurrentSegment() == NULL
NoSegment ==
    [ present |-> FALSE, b_cues |-> FALSE, indexes |-> << >>, size |-> 0,
      seek_percent |-> FALSE ]

CuedSegment == Segment(TRUE, << IndexEntry(0, 0), IndexEntry(4, Tick(1)) >>, 8, FALSE)
UncuedSegment == Segment(FALSE, << IndexEntry(0, 0), IndexEntry(4, Tick(1)) >>, 8, FALSE)

\* The coarse position indexes a segment may hold: up to two samples in the
\* order of their positions, the time of a sample known or not (-1).
IndexEntries == { IndexEntry(p, t) : p \in { 0, 4, 8 }, t \in { -1, Tick(1) } }

IndexLists ==
    { << >> } \cup { << a >> : a \in IndexEntries }
    \cup { l \in { << a, b >> : a \in IndexEntries, b \in IndexEntries } :
               l[1].i_position <= l[2].i_position }

\* The segments a seek may meet: with or without cues, with every coarse
\* index, the option "mkv-seek-percent" set or not.
SeekSegments ==
    { Segment(cues, indexes, 8, percent) :
        cues \in BOOLEAN, indexes \in IndexLists, percent \in BOOLEAN }

VChapter(start, stop, phys, pos) ==
    [ i_mk_virtual_start_time |-> start,
      i_mk_virtual_stop_time |-> stop,
      phys_start |-> phys,         \* start of the physical chapter in its segment
      pos |-> pos ]                \* read position of the segment at phys_start

\* veditions: edition 1 is unordered, edition 2 is ordered and plays the
\* start of the segment twice, edition 3 is ordered and has two chapters of
\* no length, one right after the other, between two chapters that last.
veditions ==
    << [ b_ordered |-> FALSE,
         vchapters |-> << VChapter(0, Tick(3), 0, 0) >> ],
       [ b_ordered |-> TRUE,
         vchapters |-> << VChapter(0, Tick(2), 0, 0),
                          VChapter(Tick(2), Tick(3), 0, 0) >> ],
       [ b_ordered |-> TRUE,
         vchapters |-> << VChapter(0, Tick(1), 0, 0),
                          VChapter(Tick(1), Tick(1), 0, 0),
                          VChapter(Tick(1), Tick(1), 0, 0),
                          VChapter(Tick(1), Tick(2), 0, 0) >> ] >>

\* titles: one input_title_t per edition (i_seekpoint is Len(seekpoint)).
titles ==
    << [ seekpoint |-> << 0 >>, i_length |-> Tick(3) ],
       [ seekpoint |-> << 0, Tick(2) >>, i_length |-> Tick(3) ],
       [ seekpoint |-> << 0, Tick(1), Tick(1), Tick(1) >>, i_length |-> Tick(2) ] >>

NumTitles == Len(titles)

\* The duration PreparePlayback leaves: unknown (-1), zero, or the segment's.
InitDurations == { -1, 0, Tick(3) \div 1000 }

----------------------------------------------------------------------------
(* Inputs: the blocks BlockGet may return *)

\* One grouped frame: its size, whether DataBuffer::Buffer() is non-null and
\* whether the payload can be rebuilt (MemToBlock, packetize_wavpack and
\* block_zlib_decompress return a block).
Frame(size, buf, ok) == [ size |-> size, buf |-> buf, ok |-> ok ]

GoodFrames == { Frame(n, TRUE, TRUE) : n \in 1 .. MaxSize }

Frames == GoodFrames \cup { Frame(1, FALSE, TRUE), Frame(1, TRUE, FALSE) }

RECURSIVE SeqsUpTo(_, _)
SeqsUpTo(S, n) ==
    IF n = 0 THEN { << >> }
    ELSE LET shorter == SeqsUpTo(S, n - 1)
         IN shorter \cup { Append(s, x) : s \in { q \in shorter : Len(q) = n - 1 }, x \in S }

FrameLists(S) == SeqsUpTo(S, MaxFrames) \ { << >> }

\* tn: the block's track number (Len(tracks) + 1 is a number no track has);
\* timecode: GlobalTimecode(), in ns; size: GetSize(), the declared size.
Block(tn, tc, size, frames, key, discardable) ==
    [ tn |-> tn, timecode |-> tc, size |-> size, frames |-> frames,
      b_key_picture |-> key, b_discardable_picture |-> discardable ]

Timecodes == { Tick(k) * 1000 : k \in 0 .. MaxTc }

\* Key frame, non-reference frame, reference frame.
PictureKinds == { << TRUE, FALSE >>, << FALSE, TRUE >>, << FALSE, FALSE >> }

BlocksOf(tns, tcs, frameLists, kinds) ==
    { Block(tn, tc, MaxSize + 1, fl, k[1], k[2]) :
        tn \in tns, tc \in tcs, fl \in frameLists, k \in kinds }

NoBlock == [ tn |-> 0, timecode |-> 0, size |-> 0, frames |-> << >>,
             b_key_picture |-> FALSE, b_discardable_picture |-> FALSE ]

----------------------------------------------------------------------------
(* BlockDecode *)

NoAct == [ inits |-> 0, frames |-> FALSE ]

\* p_segment->BlockFindTrackIndex: the index of the track the block names,
\* NULL when no track has that number.
BlockFindTrackIndex(b) == IF b.tn \in TrackIds THEN b.tn ELSE NULL

\* send_Block: hands the block to the sink of the track and moves the
\* track's last-decode-timestamp cursor to a valid decode timestamp.
\* D is the decoder's view: [last, inited, act, out].
send_Block(D, t, kind, bytes, pts, dts) ==
    [ D EXCEPT
        !.last[t] = IF dts > VLC_TS_INVALID /\ tracks[t].cat \in { "video", "audio" }
                    THEN dts ELSE @,
        !.act[t] = IF kind = "init"
                   THEN [ @ EXCEPT !.inits = IF @ < 2 THEN @ + 1 ELSE @ ]
                   ELSE [ @ EXCEPT !.frames = TRUE ],
        !.out = Append(@, [ kind |-> kind, tk |-> t, bytes |-> bytes, pts |-> pts,
                            dts |-> dts ]) ]

\* handle_real_audio: the frame goes to the buffered reorder-and-emit path.
handle_real_audio(D, t, bytes, pts) ==
    [ D EXCEPT !.out = Append(@, [ kind |-> "real", tk |-> t, bytes |-> bytes, pts |-> pts,
                                    dts |-> VLC_TS_INVALID ]) ]

Min(a, b) == IF a < b THEN a ELSE b

\* The timestamps of one frame: [pts, dts].
FrameTimestamps(tk, pts, last_dts, b_key, b_discardable) ==
    IF tk.cat # "video"
    THEN [ pts |-> pts, dts |-> pts ]
    ELSE IF tk.regime = "dts_only"
    THEN [ pts |-> VLC_TS_INVALID, dts |-> pts ]
    ELSE IF tk.regime = "pts_only"
    THEN [ pts |-> pts, dts |-> pts ]
    ELSE [ pts |-> pts,
           dts |-> IF b_key \/ b_discardable THEN pts
                   ELSE IF last_dts = VLC_TS_INVALID THEN pts
                   ELSE Min(pts, last_dts + tk.i_default_duration) ]

\* The origin of the next grouped frame.
NextFramePts(tk, pts) ==
    IF tk.i_default_duration # 0 THEN pts + tk.i_default_duration
    ELSE IF tk.b_packetized THEN VLC_TS_INVALID
    ELSE pts + 1

\* The bounds check as it would be if each frame were held against the
\* declared size alone, not the bytes consumed so far.
FrameRejected_EachFrameAlone(data, frame_size, block_size) ==
    ~data.buf \/ data.size > block_size

\* The bounds check of one grouped frame; frame_size already counts it.
FrameRejected(data, frame_size, block_size) ==
    ~data.buf \/ data.size > frame_size \/ frame_size > block_size

RECURSIVE FrameLoop(_, _, _, _, _, _)
FrameLoop(D, t, b, i_frame, frame_size0, pts) ==
    IF i_frame > Len(b.frames) THEN D
    ELSE LET tk == tracks[t]
             data == b.frames[i_frame]
             frame_size == frame_size0 + data.size
         IN IF FrameRejected(data, frame_size, b.size) THEN D
            ELSE IF ~data.ok THEN D
            ELSE IF tk.i_codec = "cook"
            THEN FrameLoop(handle_real_audio(D, t, data.size, pts), t, b, i_frame + 1, frame_size,
                           IF tk.i_default_duration # 0
                           THEN pts + tk.i_default_duration ELSE VLC_TS_INVALID)
            ELSE IF tk.cat = "nav"
            THEN [ D EXCEPT !.out = Append(@, [ kind |-> "pci", tk |-> t,
                                                bytes |-> data.size, pts |-> pts,
                                                dts |-> VLC_TS_INVALID ]) ]
            ELSE LET ts == FrameTimestamps(tk, pts, D.last[t], b.b_key_picture,
                                           b.b_discardable_picture)
                 IN FrameLoop(send_Block(D, t, "frame", data.size, ts.pts, ts.dts), t, b,
                              i_frame + 1, frame_size, NextFramePts(tk, pts))

\* What an inactive track keeps of its state.
TrackInactive(D, t) ==
    [ D EXCEPT !.inited[t] = FALSE,
               !.last[t] = IF tracks[t].cat \in { "video", "audio" }
                           THEN VLC_TS_INVALID ELSE @,
               !.act[t] = NoAct ]

\* The initialization payload goes first; init_ok: MemToBlock returned a block.
SendInit(D, t, init_ok) ==
    LET D1 == IF ~D.inited[t] /\ tracks[t].i_data_init > 0 /\ init_ok
              THEN send_Block(D, t, "init", tracks[t].i_data_init, VLC_TS_INVALID,
                              VLC_TS_INVALID)
              ELSE D
    IN [ D1 EXCEPT !.inited[t] = TRUE ]

\* BlockDecode as it would be without the test for an unbound track.
BlockDecode_UnboundDecoded(D, b, pts, init_ok) ==
    LET t == BlockFindTrackIndex(b)
    IN IF t = NULL THEN D
       ELSE IF tracks[t].cat # "nav" /\ tracks[t].p_es /\ ~es_state[t]
       THEN TrackInactive(D, t)
       ELSE FrameLoop(SendInit(D, t, init_ok), t, b, 1, 0, pts - tracks[t].i_codec_delay)

BlockDecode(D, b, pts, init_ok) ==
    LET t == BlockFindTrackIndex(b)
    IN IF t = NULL THEN D
       ELSE IF tracks[t].cat # "nav" /\ ~tracks[t].p_es THEN D
       ELSE IF tracks[t].cat # "nav" /\ ~es_state[t] THEN TrackInactive(D, t)
       ELSE FrameLoop(SendInit(D, t, init_ok), t, b, 1, 0, pts - tracks[t].i_codec_delay)

----------------------------------------------------------------------------
(* The virtual segment *)

CurrentEdition == veditions[i_current_edition + 1]

VChapterOf(edition, c) == veditions[edition + 1].vchapters[c]

\* virtual_edition_c::getChapterbyTimecode: the first chapter covering the
\* virtual time, NULL when none does.
getChapterbyTimecode(edition, time) ==
    LET chs == veditions[edition + 1].vchapters
        covering == { c \in DOMAIN chs :
                        /\ chs[c].i_mk_virtual_start_time <= time
                        /\ time < chs[c].i_mk_virtual_stop_time }
    IN IF covering = { } THEN NULL
       ELSE CHOOSE c \in covering : \A d \in covering : c <= d

\* The offset translating the segment's time to virtual time in chapter c.
ChapterOffset(edition, c) ==
    IF c = NULL THEN 0
    ELSE VChapterOf(edition, c).i_mk_virtual_start_time - VChapterOf(edition, c).phys_start

\* The mutable demux state one call works on, with what the call did so far.
World ==
    [ i_pts |-> i_pts, i_start_pts |-> i_start_pts, i_pcr |-> i_pcr,
      i_mk_chapter_time |-> i_mk_chapter_time, vchapter |-> p_current_vchapter,
      i_block |-> i_block, last |-> i_last_dts, inited |-> b_inited, act |-> act,
      out |-> << >>, pcr_out |-> << >>, nRead |-> 0, nDecode |-> 0, blk |-> NoBlock,
      vseek |-> << >>, asked |-> FALSE, switch |-> FALSE, upd_pts |-> i_pts ]

\* virtual_segment_c::Seek: resolves the virtual time to a chapter and a
\* position of the segment (pos), repositions the stream and resets every
\* track's last-decode-timestamp.
vsegment_Seek(W, edition, i_mk_date, vchapter, i_global_position, pos) ==
    LET c == IF vchapter # NULL THEN vchapter ELSE getChapterbyTimecode(edition, i_mk_date)
    IN [ W EXCEPT !.vchapter = c,
                  !.i_mk_chapter_time = ChapterOffset(edition, c),
                  !.i_pts = i_mk_date + VLC_TS_0,
                  !.i_start_pts = i_mk_date + VLC_TS_0,
                  !.last = [ t \in TrackIds |-> VLC_TS_INVALID ],
                  !.i_block = pos,
                  !.vseek = Append(@, [ date |-> i_mk_date, global |-> i_global_position ]) ]

\* virtual_segment_c::UpdateCurrentToChapter: once the virtual time has
\* passed the stop of the active chapter the cursor advances to the next
\* one, and the switch is reported; after the last chapter no chapter is
\* active.
ChapterPassed(W) ==
    /\ W.vchapter # NULL
    /\ W.i_pts - VLC_TS_0 >= VChapterOf(i_current_edition, W.vchapter).i_mk_virtual_stop_time

UpdateCurrentToChapter(W) ==
    IF ~ChapterPassed(W) THEN [ switch |-> FALSE, W |-> W ]
    ELSE IF W.vchapter < Len(CurrentEdition.vchapters)
    THEN LET next == W.vchapter + 1
             ch == VChapterOf(i_current_edition, next)
             W1 == [ W EXCEPT !.vchapter = next,
                              !.i_mk_chapter_time = ChapterOffset(i_current_edition, next),
                              !.i_pts = ch.i_mk_virtual_start_time + VLC_TS_0,
                              !.i_start_pts = ch.i_mk_virtual_start_time + VLC_TS_0,
                              !.last = [ t \in TrackIds |-> VLC_TS_INVALID ],
                              !.i_block = ch.pos ]
         IN [ switch |-> TRUE, W |-> W1 ]
    ELSE [ switch |-> FALSE, W |-> [ W EXCEPT !.vchapter = NULL ] ]

----------------------------------------------------------------------------
(* Seek *)

\* The scan as it would be if it stopped at the first sample whatever its
\* position.
SeekIndex_FirstSample(indexes, i_pos) == 1

\* The sample of the coarse position index the scan stops at: the first one
\* at or after i_pos with a known time, the last one when none qualifies.
SeekIndex(indexes, i_pos) ==
    LET hits == { i \in DOMAIN indexes :
                    indexes[i].i_position >= i_pos /\ indexes[i].i_mk_time # -1 }
    IN IF hits = { } THEN Len(indexes)
       ELSE CHOOSE i \in hits : \A j \in hits : i <= j

\* The target of a seek by fraction: [date, global].
SeekTarget(i_mk_date, f_percent) ==
    IF f_percent >= 0 /\ (segment.seek_percent \/ ~segment.b_cues \/ i_mk_date < 0)
    THEN LET date == (f_percent * f_duration * 1000) \div 2
             i_pos == (f_percent * segment.size) \div 2
         IN IF ~segment.b_cues /\ Len(segment.indexes) > 0
               /\ segment.indexes[SeekIndex(segment.indexes, i_pos)].i_position < i_pos
            THEN [ date |-> date, global |-> i_pos ]
            ELSE [ date |-> date, global |-> -1 ]
    ELSE [ date |-> i_mk_date, global |-> -1 ]

SeekRejected(i_mk_date, f_percent) ==
    \/ i_mk_date < 0 /\ f_percent < 0
    \/ f_percent > 2
    \/ f_duration < 0
    \/ ~segment.present

\* Seek( p_demux, i_mk_date, f_percent, NULL ), on the edition that is
\* current when it is called.
Seek(W, edition, i_mk_date, f_percent, pos) ==
    IF SeekRejected(i_mk_date, f_percent) THEN W
    ELSE LET target == SeekTarget(i_mk_date, f_percent)
         IN vsegment_Seek(W, edition, target.date, NULL, target.global, pos)

----------------------------------------------------------------------------
(* Demux *)

\* The minimum last-decode-timestamp over the tracks that have one.
MinLastDts(last) ==
    LET valid == { last[t] : t \in { u \in DOMAIN last : last[u] > VLC_TS_INVALID } }
    IN IF valid = { } THEN VLC_TS_INVALID
       ELSE CHOOSE m \in valid : \A n \in valid : m <= n

\* The update as it would be if any change of the minimum were published.
UpdatePcr_AnyChange(W) ==
    LET pcr == MinLastDts(W.last)
    IN IF pcr # W.i_pcr
       THEN [ W EXCEPT !.pcr_out = Append(@, VLC_TS_0 + W.i_pcr), !.i_pcr = pcr ]
       ELSE W

\* es_out_Control( ES_OUT_SET_PCR ) when the minimum moved past the threshold.
UpdatePcr(W) ==
    LET pcr == MinLastDts(W.last)
    IN IF pcr > W.i_pcr + PcrThreshold
       THEN [ W EXCEPT !.pcr_out = Append(@, VLC_TS_0 + W.i_pcr), !.i_pcr = pcr ]
       ELSE W

\* The step without a block as it would be without the nudge of one tick.
DemuxNoBlock_NoNudge(W) ==
    IF CurrentEdition.b_ordered /\ W.vchapter # NULL
    THEN [ ret |-> 1,
           W |-> [ W EXCEPT !.i_pts = VChapterOf(i_current_edition, W.vchapter)
                                          .i_mk_virtual_stop_time + VLC_TS_0 ] ]
    ELSE [ ret |-> 0, W |-> W ]

\* The step without a block as it would be if the origin stayed where it is.
DemuxNoBlock_OriginKept(W) ==
    IF CurrentEdition.b_ordered /\ W.vchapter # NULL
    THEN [ ret |-> 1, W |-> W ]
    ELSE [ ret |-> 0, W |-> W ]

\* BlockGet found no block.
DemuxNoBlock(W) ==
    IF CurrentEdition.b_ordered /\ W.vchapter # NULL
    THEN [ ret |-> 1,
           W |-> [ W EXCEPT !.i_pts = VChapterOf(i_current_edition, W.vchapter)
                                          .i_mk_virtual_stop_time + VLC_TS_0 + 1 ] ]
    ELSE [ ret |-> 0, W |-> W ]

\* Demux as it would be if the block were decoded before the end of an
\* ordered edition is looked at.
DemuxBlock_DecodeFirst(W, b, init_ok) ==
    LET W1 == [ W EXCEPT !.i_block = @ + 1, !.nRead = @ + 1, !.blk = b,
                         !.i_pts = (b.timecode \div 1000) + W.i_mk_chapter_time + VLC_TS_0 ]
        W2 == UpdatePcr(W1)
        D == BlockDecode([ last |-> W2.last, inited |-> W2.inited,
                           act |-> W2.act, out |-> W2.out ],
                         b, W2.i_pts, init_ok)
    IN [ ret |-> IF CurrentEdition.b_ordered /\ W2.vchapter = NULL THEN 0 ELSE 1,
         W |-> [ W2 EXCEPT !.last = D.last, !.inited = D.inited, !.act = D.act,
                           !.out = D.out, !.nDecode = @ + 1 ] ]

\* Demux as it would be without the test for the end of an ordered edition.
DemuxBlock_NoEndOfEdition(W, b, init_ok) ==
    LET W1 == [ W EXCEPT !.i_block = @ + 1, !.nRead = @ + 1, !.blk = b,
                         !.i_pts = (b.timecode \div 1000) + W.i_mk_chapter_time + VLC_TS_0 ]
        W2 == UpdatePcr(W1)
        D == BlockDecode([ last |-> W2.last, inited |-> W2.inited,
                           act |-> W2.act, out |-> W2.out ],
                         b, W2.i_pts, init_ok)
    IN [ ret |-> 1,
         W |-> [ W2 EXCEPT !.last = D.last, !.inited = D.inited, !.act = D.act,
                           !.out = D.out, !.nDecode = @ + 1 ] ]

\* Demux as it would be if a block BlockDecode cannot place ended the stream.
DemuxBlock_StopOnBadTrack(W, b, init_ok) ==
    LET W1 == [ W EXCEPT !.i_block = @ + 1, !.nRead = @ + 1, !.blk = b,
                         !.i_pts = (b.timecode \div 1000) + W.i_mk_chapter_time + VLC_TS_0 ]
        W2 == UpdatePcr(W1)
    IN IF CurrentEdition.b_ordered /\ W2.vchapter = NULL
       THEN [ ret |-> 0, W |-> W2 ]
       ELSE LET D == BlockDecode([ last |-> W2.last, inited |-> W2.inited,
                                   act |-> W2.act, out |-> W2.out ],
                                 b, W2.i_pts, init_ok)
            IN [ ret |-> IF BlockFindTrackIndex(b) = NULL THEN 0 ELSE 1,
                 W |-> [ W2 EXCEPT !.last = D.last, !.inited = D.inited, !.act = D.act,
                                   !.out = D.out, !.nDecode = @ + 1 ] ]

\* BlockGet returned block b.
DemuxBlock(W, b, init_ok) ==
    LET W1 == [ W EXCEPT !.i_block = @ + 1, !.nRead = @ + 1, !.blk = b,
                         !.i_pts = (b.timecode \div 1000) + W.i_mk_chapter_time + VLC_TS_0 ]
        W2 == UpdatePcr(W1)
    IN IF CurrentEdition.b_ordered /\ W2.vchapter = NULL
       THEN [ ret |-> 0, W |-> W2 ]
       ELSE LET D == BlockDecode([ last |-> W2.last, inited |-> W2.inited,
                                   act |-> W2.act, out |-> W2.out ],
                                 b, W2.i_pts, init_ok)
            IN [ ret |-> 1,
                 W |-> [ W2 EXCEPT !.last = D.last, !.inited = D.inited, !.act = D.act,
                                   !.out = D.out, !.nDecode = @ + 1 ] ]

\* The demux step as it would be if the advance were asked for only past the
\* start threshold, not at it.
DemuxStep_AsksPastStart(W, b, init_ok) ==
    LET asked == W.i_pts > W.i_start_pts
        upd == IF asked THEN UpdateCurrentToChapter(W)
               ELSE [ switch |-> FALSE, W |-> W ]
        W0 == [ upd.W EXCEPT !.asked = asked, !.switch = upd.switch,
                             !.upd_pts = upd.W.i_pts ]
    IN IF upd.switch THEN [ ret |-> 1, W |-> W0 ]
       ELSE IF ~segment.present THEN [ ret |-> 0, W |-> W0 ]
       ELSE IF W0.i_block >= NumBlocks THEN DemuxNoBlock(W0)
       ELSE DemuxBlock(W0, b, init_ok)

\* One demux step from world W; b is the block BlockGet returns if it has one.
DemuxStep(W, b, init_ok) ==
    LET asked == W.i_pts >= W.i_start_pts
        upd == IF asked THEN UpdateCurrentToChapter(W)
               ELSE [ switch |-> FALSE, W |-> W ]
        W0 == [ upd.W EXCEPT !.asked = asked, !.switch = upd.switch,
                             !.upd_pts = upd.W.i_pts ]
    IN IF upd.switch THEN [ ret |-> 1, W |-> W0 ]
       ELSE IF ~segment.present THEN [ ret |-> 0, W |-> W0 ]
       ELSE IF W0.i_block >= NumBlocks THEN DemuxNoBlock(W0)
       ELSE DemuxBlock(W0, b, init_ok)

\* The state after a call: the world it left and the record of the call.
Store(W, c) ==
    /\ i_pts' = W.i_pts
    /\ i_start_pts' = W.i_start_pts
    /\ i_pcr' = W.i_pcr
    /\ i_mk_chapter_time' = W.i_mk_chapter_time
    /\ p_current_vchapter' = W.vchapter
    /\ i_block' = W.i_block
    /\ i_last_dts' = W.last
    /\ b_inited' = W.inited
    /\ act' = W.act
    /\ sink_pcr' = IF W.pcr_out = << >> THEN sink_pcr ELSE W.pcr_out[Len(W.pcr_out)]
    /\ call' = [ c EXCEPT !.nRead = W.nRead, !.nDecode = W.nDecode, !.blk = W.blk,
                          !.out = W.out, !.pcr_out = W.pcr_out, !.vseek = W.vseek,
                          !.asked = W.asked, !.switch = W.switch, !.upd_pts = W.upd_pts ]

NoCall ==
    [ op |-> "none", ret |-> 1, code |-> "none", arg |-> 0, date |-> 0, percent |-> 0,
      seek |-> FALSE, nRead |-> 0, nDecode |-> 0, blk |-> NoBlock, out |-> << >>,
      pcr_out |-> << >>, vseek |-> << >>, asked |-> FALSE, switch |-> FALSE, upd_pts |-> 0,
      wrote |-> FALSE, value |-> 0, oom |-> FALSE ]

\* Some track still has its initialization payload to send.
InitPending == \E t \in TrackIds : ~b_inited[t] /\ tracks[t].i_data_init > 0

\* Demux without the lock: lines 715 to 786.
DemuxBody(B) ==
    \E b \in (IF i_block < NumBlocks THEN B ELSE { NoBlock }),
       init_ok \in (IF InitPending THEN BOOLEAN ELSE { TRUE }) :
        \E r \in { DemuxStep(World, b, init_ok) } :
           /\ Store(r.W, [ NoCall EXCEPT !.op = "Demux", !.ret = r.ret ])
           /\ UNCHANGED << tracks, segment, es_state, f_duration, i_current_edition,
                           i_current_title, info >>

\* Demux: the lock is taken on entry and released on return.
Demux(B) ==
    /\ lock = "free"
    /\ DemuxBody(B)
    /\ UNCHANGED << lock, pc, open >>

----------------------------------------------------------------------------
(* Control: the requests that seek *)

\* Where a seek may leave the segment's read position.
Positions == { 0, NumBlocks }

\* DEMUX_SET_POSITION
SetPositionBody(f) ==
    \E pos \in Positions :
        IF f_duration > 0
        THEN /\ Store(Seek(World, i_current_edition, -1, f, pos),
                      [ NoCall EXCEPT !.op = "SetPosition", !.code = "VLC_SUCCESS",
                                      !.seek = TRUE, !.date = -1, !.percent = f ])
             /\ UNCHANGED << tracks, segment, es_state, f_duration, i_current_edition,
                             i_current_title, info >>
        ELSE /\ Store(World, [ NoCall EXCEPT !.op = "SetPosition", !.code = "VLC_EGENERIC",
                                             !.date = -1, !.percent = f ])
             /\ UNCHANGED << tracks, segment, es_state, f_duration, i_current_edition,
                             i_current_title, info >>

\* DEMUX_SET_TIME
SetTimeBody(i64) ==
    \E pos \in Positions :
        /\ Store(Seek(World, i_current_edition, i64, -2, pos),
                 [ NoCall EXCEPT !.op = "SetTime", !.code = "VLC_SUCCESS",
                                 !.seek = TRUE, !.date = i64, !.percent = -2 ])
        /\ UNCHANGED << tracks, segment, es_state, f_duration, i_current_edition,
                        i_current_title, info >>

\* DEMUX_SET_TITLE; i_idx is the int of the request read as a size_t.
SetTitleBody(i_idx) ==
    \E pos \in Positions :
        IF i_idx >= 0 /\ i_idx < NumTitles /\ Len(titles[i_idx + 1].seekpoint) # 0
        THEN LET W1 == [ World EXCEPT !.vchapter = getChapterbyTimecode(i_idx, 0) ]
                 date == titles[i_idx + 1].seekpoint[1]
             IN /\ i_current_edition' = i_idx
                /\ i_current_title' = i_idx
                /\ Store(Seek(W1, i_idx, date, -2, pos),
                         [ NoCall EXCEPT !.op = "SetTitle", !.code = "VLC_SUCCESS",
                                         !.arg = i_idx, !.seek = TRUE, !.date = date,
                                         !.percent = -2 ])
                /\ info' = [ i_update |-> info.i_update \cup { "SEEKPOINT", "TITLE" },
                             i_seekpoint |-> 0, i_title |-> i_idx ]
                /\ f_duration' = titles[i_idx + 1].i_length \div 1000
                /\ UNCHANGED << tracks, segment, es_state >>
        ELSE /\ Store(World, [ NoCall EXCEPT !.op = "SetTitle", !.code = "VLC_EGENERIC",
                                             !.arg = i_idx ])
             /\ UNCHANGED << tracks, segment, es_state, f_duration, i_current_edition,
                             i_current_title, info >>

\* What seekpoint[i_skp] reads when i_skp is below 0: any time at all.
StrayTimes == { -1, Tick(1) }

\* DEMUX_SET_SEEKPOINT
SetSeekpointBody(i_skp) ==
    \E pos \in Positions, stray \in StrayTimes :
        IF NumTitles # 0 /\ i_skp < Len(titles[i_current_title + 1].seekpoint)
        THEN LET date == IF i_skp >= 0 THEN titles[i_current_title + 1].seekpoint[i_skp + 1]
                         ELSE stray
             IN /\ Store(Seek(World, i_current_edition, date, -2, pos),
                         [ NoCall EXCEPT !.op = "SetSeekpoint", !.code = "VLC_SUCCESS",
                                         !.arg = i_skp, !.seek = TRUE, !.date = date,
                                         !.percent = -2 ])
                /\ info' = [ info EXCEPT !.i_update = @ \cup { "SEEKPOINT" },
                                         !.i_seekpoint = i_skp ]
                /\ UNCHANGED << tracks, segment, es_state, f_duration, i_current_edition,
                                i_current_title >>
        ELSE /\ Store(World, [ NoCall EXCEPT !.op = "SetSeekpoint", !.code = "VLC_EGENERIC",
                                             !.arg = i_skp ])
             /\ UNCHANGED << tracks, segment, es_state, f_duration, i_current_edition,
                             i_current_title, info >>

\* The requests, with their arguments drawn from the given sets.
SetPosition(percents) ==
    (\E f \in percents : SetPositionBody(f)) /\ UNCHANGED << lock, pc, open >>

SetTime(times) ==
    (\E t \in times : SetTimeBody(t)) /\ UNCHANGED << lock, pc, open >>

SetTitle(args) ==
    (\E i \in args : SetTitleBody(i)) /\ UNCHANGED << lock, pc, open >>

SetSeekpoint(args) ==
    (\E i \in args : SetSeekpointBody(i)) /\ UNCHANGED << lock, pc, open >>

Percents == { -2, 0, 1, 2, 3 }
Times == { -1, 0, Tick(2) }
TitleArgs == -1 .. NumTitles
SeekpointArgs == -1 .. NumTitles

----------------------------------------------------------------------------
(* Control: the queries *)

\* What a query leaves alone: everything but the record of the call.
QueryKept ==
    UNCHANGED << tracks, segment, es_state, i_last_dts, b_inited, act, i_block, i_pts,
                 i_start_pts, i_pcr, i_mk_chapter_time, f_duration, i_current_edition,
                 p_current_vchapter, i_current_title, info, lock, pc, sink_pcr, open >>

\* DEMUX_GET_LENGTH: *pi64 is the duration in us.
GetLength ==
    /\ call' = IF f_duration > 0
               THEN [ NoCall EXCEPT !.op = "GetLength", !.code = "VLC_SUCCESS",
                                    !.wrote = TRUE, !.value = f_duration * 1000 ]
               ELSE [ NoCall EXCEPT !.op = "GetLength", !.code = "VLC_EGENERIC" ]
    /\ QueryKept

\* DEMUX_GET_POSITION: *pf is the later of i_pcr and i_start_pts over the
\* duration in us, held as numerator and denominator.
GetPosition ==
    /\ call' = IF f_duration > 0
               THEN [ NoCall EXCEPT !.op = "GetPosition", !.code = "VLC_SUCCESS",
                                    !.wrote = TRUE,
                                    !.value = << IF i_pcr >= i_start_pts THEN i_pcr
                                                 ELSE i_start_pts,
                                                 1000 * f_duration >> ]
               ELSE [ NoCall EXCEPT !.op = "GetPosition", !.code = "VLC_SUCCESS" ]
    /\ QueryKept

\* DEMUX_GET_TIME
GetTime ==
    /\ call' = [ NoCall EXCEPT !.op = "GetTime", !.code = "VLC_SUCCESS",
                               !.wrote = TRUE, !.value = i_pcr ]
    /\ QueryKept

\* What a store through a null pointer may do: end the process, or go unnoticed.
NullStore == { "crash", "VLC_SUCCESS" }

\* DEMUX_GET_ATTACHMENTS; list_ok: malloc returned the list; fail_at: the
\* attachment for which vlc_input_attachment_New returns NULL (0: none).
GetAttachments ==
    /\ \E list_ok \in BOOLEAN, fail_at \in 0 .. open.attachments :
        LET n == open.attachments
            c == [ NoCall EXCEPT !.op = "GetAttachments", !.arg = n ]
        IN call' = IF n <= 0 THEN [ c EXCEPT !.code = "VLC_EGENERIC" ]
                   ELSE IF ~list_ok THEN [ c EXCEPT !.code = "VLC_ENOMEM", !.oom = TRUE ]
                   ELSE IF fail_at # 0 THEN [ c EXCEPT !.code = "VLC_ENOMEM", !.oom = TRUE ]
                   ELSE [ c EXCEPT !.code = "VLC_SUCCESS", !.wrote = TRUE, !.value = n ]
    /\ QueryKept

\* DEMUX_GET_TITLE_INFO; list_ok: malloc returned the list, which is stored
\* into unchecked; dup_ok: vlc_input_title_Duplicate returned every title.
GetTitleInfo ==
    /\ \E list_ok \in BOOLEAN, dup_ok \in BOOLEAN, through_null \in NullStore :
        LET c == [ NoCall EXCEPT !.op = "GetTitleInfo", !.arg = NumTitles ]
        IN call' = IF NumTitles > 1 \/ (NumTitles = 1 /\ Len(titles[1].seekpoint) > 0)
                   THEN IF ~list_ok
                        THEN [ c EXCEPT !.code = through_null, !.oom = TRUE ]
                        ELSE [ c EXCEPT !.code = "VLC_SUCCESS", !.wrote = TRUE,
                                        !.value = NumTitles, !.oom = ~dup_ok ]
                   ELSE [ c EXCEPT !.code = "VLC_EGENERIC" ]
    /\ QueryKept

----------------------------------------------------------------------------
(* The sink *)

\* The host selects or unselects the elementary stream of a track.
EsSetState ==
    \E t \in { u \in TrackIds : tracks[u].p_es } :
        /\ es_state' = [ es_state EXCEPT ![t] = ~@ ]
        /\ call' = [ NoCall EXCEPT !.op = "EsSetState", !.arg = t ]
        /\ UNCHANGED << tracks, segment, i_last_dts, b_inited, act, i_block, i_pts,
                        i_start_pts, i_pcr, i_mk_chapter_time, f_duration,
                        i_current_edition, p_current_vchapter, i_current_title, info,
                        lock, pc, sink_pcr, open >>

----------------------------------------------------------------------------
(* Open and Close *)

\* What Open meets in the byte stream: peek is "short" (fewer than 4 bytes),
\* "bad" (no EBML magic) or "ok"; estream: new (std::nothrow) EbmlStream
\* returned an object; segment: AnalyseAllSegmentsFound returned a stream;
\* cluster, editions: segments[0] has a cluster, has stored editions;
\* linked, playback: PreloadLinked and PreparePlayback returned true;
\* chapters: the physical chapters of its ordered edition, as declared.
Files ==
    [ peek : { "short", "bad", "ok" }, estream : BOOLEAN, segment : BOOLEAN,
      cluster : BOOLEAN, editions : BOOLEAN, linked : BOOLEAN, playback : BOOLEAN,
      chapters : { << >> } ]

GoodFile ==
    [ peek |-> "ok", estream |-> TRUE, segment |-> TRUE, cluster |-> TRUE,
      editions |-> TRUE, linked |-> TRUE, playback |-> TRUE, chapters |-> << >> ]

\* A physical chapter: its start and end in the segment's time, and whether
\* the segment it refers to was found.
PhysChapter(start, end, resolved) ==
    [ i_start_time |-> start, i_end_time |-> end, resolved |-> resolved ]

\* Chapters of no length and of one step, from two starts, found or not.
PhysChapters ==
    { PhysChapter(Tick(st), Tick(st) + Tick(d), r) :
        st \in 0 .. 1, d \in 0 .. 1, r \in BOOLEAN }

\* The chapter lists an ordered edition may declare.
PhysLists == SeqsUpTo(PhysChapters, MaxChapters)

\* No chapter composed yet: the running total is 0.
NoVirtual == [ total |-> 0, vchapters |-> << >>, flagged |-> { } ]

\* The walk as it would be if a skipped chapter still took its time on the
\* virtual timeline.
ComposeChapter_SkippedTakesTime(P, ch, k) ==
    IF ~ch.resolved
    THEN [ P EXCEPT !.flagged = @ \cup { k },
                    !.total = @ + (ch.i_end_time - ch.i_start_time) ]
    ELSE LET stop == P.total + (ch.i_end_time - ch.i_start_time)
         IN [ P EXCEPT !.vchapters = Append(@, [ i_mk_virtual_start_time |-> P.total,
                                                 i_mk_virtual_stop_time |-> stop,
                                                 p_chapter |-> k ]),
                       !.total = stop ]

\* PreloadLinked, one physical chapter (the k-th declared): a chapter whose
\* segment was not found is skipped and flagged; any other starts at the
\* running total and lasts as long as the physical chapter.
ComposeChapter(P, ch, k) ==
    IF ~ch.resolved
    THEN [ P EXCEPT !.flagged = @ \cup { k } ]
    ELSE LET stop == P.total + (ch.i_end_time - ch.i_start_time)
         IN [ P EXCEPT !.vchapters = Append(@, [ i_mk_virtual_start_time |-> P.total,
                                                 i_mk_virtual_stop_time |-> stop,
                                                 p_chapter |-> k ]),
                       !.total = stop ]

\* PreloadLinked, the walk over the chapters from the k-th on.
RECURSIVE ComposeFrom(_, _, _)
ComposeFrom(P, chapters, k) ==
    IF k > Len(chapters) THEN P
    ELSE ComposeFrom(ComposeChapter(P, chapters[k], k), chapters, k + 1)

\* PreloadLinked on an ordered edition.
PreloadLinked(chapters) == ComposeFrom(NoVirtual, chapters, 1)

\* Open is entered on file f: nothing is allocated yet.
OpenEntered(f) ==
    [ pc |-> "peek", file |-> f, ret |-> "none", heap |-> { }, owned |-> { },
      attachments |-> 0, linked |-> NoVirtual ]

\* Open has returned VLC_SUCCESS: the demuxer holds its state and one stream,
\* which owns the I/O callback and the EBML stream.
Opened ==
    [ pc |-> "done", file |-> GoodFile, ret |-> "VLC_SUCCESS",
      heap |-> { "p_sys", "p_stream", "p_io_callback", "p_io_stream" },
      owned |-> { "p_stream", "p_io_callback", "p_io_stream" },
      attachments |-> 0, linked |-> NoVirtual ]

\* The same, with n attachments in p_sys->stored_attachments.
OpenedWith(n) == [ Opened EXCEPT !.attachments = n ]

\* delete p_sys: the demuxer's state goes, with the streams it holds and what
\* they own.
delete_p_sys(o) == [ o EXCEPT !.heap = @ \ ({ "p_sys" } \cup o.owned), !.owned = { } ]

\* The variables Open does not touch before it returns.
PlayVars ==
    << tracks, segment, es_state, i_last_dts, b_inited, act, i_block, i_pts, i_start_pts,
       i_pcr, i_mk_chapter_time, f_duration, i_current_edition, p_current_vchapter,
       i_current_title, info, call, lock, pc, sink_pcr >>

\* Lines 103 to 108: peek the beginning, is it a valid file.
OpenPeek ==
    /\ open.pc = "peek"
    /\ open' = IF open.file.peek = "ok" THEN [ open EXCEPT !.pc = "create" ]
               ELSE [ open EXCEPT !.pc = "done", !.ret = "VLC_EGENERIC" ]
    /\ UNCHANGED PlayVars

\* Lines 110 to 124: the demuxer's state, the I/O callback and the EBML stream.
OpenCreate ==
    /\ open.pc = "create"
    /\ open' = IF open.file.estream
               THEN [ open EXCEPT !.pc = "analyse",
                                  !.heap = { "p_sys", "p_io_callback", "p_io_stream" } ]
               ELSE [ open EXCEPT !.pc = "done", !.ret = "VLC_EGENERIC", !.heap = { } ]
    /\ UNCHANGED PlayVars

\* Lines 126 to 135: AnalyseAllSegmentsFound; the stream found is pushed on
\* p_sys->streams and given the I/O callback and the EBML stream.
OpenAnalyse ==
    /\ open.pc = "analyse"
    /\ open' = IF open.file.segment
               THEN [ open EXCEPT !.pc = "check",
                                  !.heap = @ \cup { "p_stream" },
                                  !.owned = { "p_stream", "p_io_callback", "p_io_stream" } ]
               ELSE [ open EXCEPT !.pc = "error" ]
    /\ UNCHANGED PlayVars

\* Lines 137 to 152: preload the segments; is there a cluster or a chapter.
OpenCheck ==
    /\ open.pc = "check"
    /\ open' = IF ~open.file.cluster /\ ~open.file.editions
               THEN [ open EXCEPT !.pc = "error" ]
               ELSE [ open EXCEPT !.pc = "prepare" ]
    /\ UNCHANGED PlayVars

\* Lines 154 to 256: the files of the same family may join as further
\* streams of p_sys; then PreloadLinked and PreparePlayback.
OpenPrepare ==
    /\ open.pc = "prepare"
    /\ \E family \in BOOLEAN :
        LET o == IF family
                 THEN [ open EXCEPT !.heap = @ \cup { "p_family_stream" },
                                    !.owned = @ \cup { "p_family_stream" } ]
                 ELSE open
        IN open' = IF ~o.file.linked THEN [ o EXCEPT !.pc = "error" ]
                   ELSE IF ~o.file.playback
                   THEN [ o EXCEPT !.pc = "error",
                                   !.linked = PreloadLinked(o.file.chapters) ]
                   ELSE [ o EXCEPT !.pc = "finish",
                                   !.linked = PreloadLinked(o.file.chapters) ]
    /\ UNCHANGED PlayVars

\* Lines 258 to 262: FreeUnused, InitUi, return VLC_SUCCESS.
OpenFinish ==
    /\ open.pc = "finish"
    /\ open' = [ open EXCEPT !.pc = "done", !.ret = "VLC_SUCCESS" ]
    /\ UNCHANGED PlayVars

\* Lines 264 to 266: error: delete p_sys; return VLC_EGENERIC.
OpenError ==
    /\ open.pc = "error"
    /\ open' = [ delete_p_sys(open) EXCEPT !.pc = "done", !.ret = "VLC_EGENERIC" ]
    /\ UNCHANGED PlayVars

\* Close, after a successful Open.
Close ==
    /\ open.pc = "done"
    /\ open.ret = "VLC_SUCCESS"
    /\ open' = [ delete_p_sys(open) EXCEPT !.pc = "closed" ]
    /\ UNCHANGED PlayVars

----------------------------------------------------------------------------
(* Specifications *)

\* The state Open leaves, for track lists S and default editions E.
InitVars(S, E, G, F) ==
    /\ tracks \in S
    /\ segment \in G
    /\ es_state = [ t \in TrackIds |-> TRUE ]
    /\ i_last_dts = [ t \in TrackIds |-> VLC_TS_INVALID ]
    /\ b_inited = [ t \in TrackIds |-> FALSE ]
    /\ act = [ t \in TrackIds |-> NoAct ]
    /\ i_block = 0
    /\ i_pts = VLC_TS_0
    /\ i_start_pts = VLC_TS_0
    /\ i_pcr = VLC_TS_INVALID
    /\ i_mk_chapter_time = 0
    /\ f_duration \in F
    /\ i_current_edition \in E
    /\ p_current_vchapter = getChapterbyTimecode(i_current_edition, 0)
    /\ i_current_title = i_current_edition
    /\ info = [ i_update |-> { }, i_seekpoint |-> 0, i_title |-> i_current_edition ]
    /\ call = NoCall
    /\ lock = "free"
    /\ pc = [ demux |-> "idle", control |-> "idle" ]
    /\ sink_pcr = VLC_TS_INVALID

InitWith(S, E, G, F) == InitVars(S, E, G, F) /\ open = Opened

\* One host thread issues every request, and reads plain blocks in between.
PlainBlocks ==
    BlocksOf({ 1 }, Timecodes, { << Frame(1, TRUE, TRUE) >> }, { << TRUE, FALSE >> })

Init == InitWith(PlaySetups, { 0, 1 }, { CuedSegment }, InitDurations)

Next ==
    \/ Demux(PlainBlocks)
    \/ SetPosition(Percents)
    \/ SetTime(Times)
    \/ SetTitle(TitleArgs)
    \/ SetSeekpoint(SeekpointArgs)

Spec == Init /\ [][Next]_vars

\* One host thread plays the segment: blocks of every track, some damaged,
\* with the sink selecting tracks and the host changing title in between.
PlayBlocks ==
    BlocksOf(1 .. 3, Timecodes,
             { << Frame(1, TRUE, TRUE) >>,
               << Frame(MaxSize, TRUE, TRUE), Frame(MaxSize, TRUE, TRUE) >>,
               << Frame(1, TRUE, FALSE) >> },
             { << TRUE, FALSE >> })

InitPlay == InitWith(PlaySetups, { 0, 1 }, { CuedSegment }, { Tick(3) \div 1000 })

NextPlay ==
    \/ Demux(PlayBlocks)
    \/ EsSetState
    \/ SetTime({ 0 })
    \/ SetTitle({ 0, 1 })

SpecPlay == InitPlay /\ [][NextPlay]_vars

\* The decoder at work: blocks of every shape on one track, the sink
\* selecting and unselecting it, and a seek back to the start.
DecodeBlocks == BlocksOf(1 .. 2, Timecodes, FrameLists(Frames), PictureKinds)

InitDecode == InitWith(DecodeSetups, { 0 }, { CuedSegment }, { Tick(3) \div 1000 })

NextDecode ==
    \/ Demux(DecodeBlocks)
    \/ EsSetState
    \/ SetTime({ 0 })

SpecDecode == InitDecode /\ [][NextDecode]_vars

\* The frame loop at work: blocks of one track and one timecode with every
\* list of frames, the sink selecting and unselecting the track.
FrameBlocks == BlocksOf({ 1 }, { 0 }, FrameLists(Frames), { << TRUE, FALSE >> })

InitFrames == InitWith(DecodeSetups, { 0 }, { CuedSegment }, { Tick(3) \div 1000 })

NextFrames ==
    \/ Demux(FrameBlocks)
    \/ EsSetState

SpecFrames == InitFrames /\ [][NextFrames]_vars

\* The clock at work: blocks of two tracks far enough apart in time for the
\* minimum last-decode-timestamp to pass the threshold, the sink selecting
\* tracks and the host seeking back to the start.
ClockTimecodes == { Tick(4) * 1000, Tick(8) * 1000 }

ClockBlocks ==
    BlocksOf(1 .. 2, ClockTimecodes, { << Frame(1, TRUE, TRUE) >> }, { << TRUE, FALSE >> })

InitClock ==
    InitWith({ << VideoGeneral, AudioInit >> }, { 0, 1 }, { CuedSegment },
             { Tick(3) \div 1000 })

NextClock ==
    \/ Demux(ClockBlocks)
    \/ EsSetState
    \/ SetTime({ 0 })

SpecClock == InitClock /\ [][NextClock]_vars

\* Timestamps at work: sound blocks of one or more grouped frames on one
\* track of every category and regime, the sink selecting and unselecting it.
StampBlocks ==
    BlocksOf({ 1 }, Timecodes, FrameLists({ Frame(1, TRUE, TRUE) }), PictureKinds)

InitStamps == InitWith(StampSetups, { 0 }, { CuedSegment }, { Tick(3) \div 1000 })

NextStamps ==
    \/ Demux(StampBlocks)
    \/ EsSetState

SpecStamps == InitStamps /\ [][NextStamps]_vars

\* Seeks by fraction on every kind of segment, with demux steps in between.
InitSeek == InitWith({ << VideoGeneral >> }, { 0 }, SeekSegments, { Tick(3) \div 1000 })

NextSeek ==
    \/ Demux(PlainBlocks)
    \/ SetPosition(Percents)

SpecSeek == InitSeek /\ [][NextSeek]_vars

\* The host asks the queries, with demux steps and seeks by fraction in between.
InitQuery ==
    /\ InitVars(PlaySetups, { 0, 1 }, { CuedSegment }, InitDurations)
    /\ open \in { OpenedWith(n) : n \in 0 .. MaxAttachments }

NextQuery ==
    \/ Demux(PlainBlocks)
    \/ SetPosition({ 0, 1 })
    \/ GetLength
    \/ GetPosition
    \/ GetTime
    \/ GetAttachments
    \/ GetTitleInfo

SpecQuery == InitQuery /\ [][NextQuery]_vars

\* Playback runs to its end: the host only calls Demux, again and again,
\* while the sink selects and unselects tracks; every ordered edition.
InitEnd == InitWith(PlaySetups, { 1, 2 }, { CuedSegment }, { Tick(3) \div 1000 })

NextEnd ==
    \/ Demux(PlainBlocks)
    \/ EsSetState

\* The host keeps calling Demux.
FairEnd == WF_vars(Demux(PlainBlocks))

SpecEnd == InitEnd /\ [][NextEnd]_vars /\ FairEnd

\* Open at work on every kind of file, and Close after it.
InitOpen ==
    /\ InitVars({ << VideoGeneral >> }, { 0 }, { CuedSegment }, { Tick(3) \div 1000 })
    /\ open \in { OpenEntered(f) : f \in Files }

NextOpen ==
    \/ OpenPeek
    \/ OpenCreate
    \/ OpenAnalyse
    \/ OpenCheck
    \/ OpenPrepare
    \/ OpenFinish
    \/ OpenError
    \/ Close

SpecOpen == InitOpen /\ [][NextOpen]_vars

\* Open at work on files that declare an ordered edition, every list of
\* chapters; PreparePlayback may fail after the edition is composed.
PreloadFiles ==
    { [ GoodFile EXCEPT !.chapters = c, !.playback = p ] : c \in PhysLists, p \in BOOLEAN }

InitPreload ==
    /\ InitVars({ << VideoGeneral >> }, { 0 }, { CuedSegment }, { Tick(3) \div 1000 })
    /\ open \in { OpenEntered(f) : f \in PreloadFiles }

SpecPreload == InitPreload /\ [][NextOpen]_vars

----------------------------------------------------------------------------
(* Two threads: the demux thread and a control thread *)

\* vlc_mutex_locker demux_lock ( &p_sys->lock_demuxer )
DemuxLock ==
    /\ pc.demux = "idle"
    /\ lock = "free"
    /\ lock' = "demux"
    /\ pc' = [ pc EXCEPT !.demux = "locked" ]
    /\ UNCHANGED << tracks, segment, es_state, i_last_dts, b_inited, act, i_block, i_pts,
                    i_start_pts, i_pcr, i_mk_chapter_time, f_duration, i_current_edition,
                    p_current_vchapter, i_current_title, info, call, sink_pcr, open >>

\* The body of Demux, under the lock.
DemuxRun ==
    /\ pc.demux = "locked"
    /\ DemuxBody(PlainBlocks)
    /\ pc' = [ pc EXCEPT !.demux = "return" ]
    /\ UNCHANGED << lock, open >>

\* The locker's destructor, on return.
DemuxUnlock ==
    /\ pc.demux = "return"
    /\ lock' = "free"
    /\ pc' = [ pc EXCEPT !.demux = "idle" ]
    /\ UNCHANGED << tracks, segment, es_state, i_last_dts, b_inited, act, i_block, i_pts,
                    i_start_pts, i_pcr, i_mk_chapter_time, f_duration, i_current_edition,
                    p_current_vchapter, i_current_title, info, call, sink_pcr, open >>

\* Control is entered with a request that seeks; it takes no lock.
ControlEnter ==
    /\ pc.control = "idle"
    /\ pc' = [ pc EXCEPT !.control = "seek" ]
    /\ UNCHANGED << tracks, segment, es_state, i_last_dts, b_inited, act, i_block, i_pts,
                    i_start_pts, i_pcr, i_mk_chapter_time, f_duration, i_current_edition,
                    p_current_vchapter, i_current_title, info, call, lock, sink_pcr,
                    open >>

\* The request reads and writes the demux state, and returns.
ControlRun ==
    /\ pc.control = "seek"
    /\ \/ \E f \in { 0 } : SetPositionBody(f)
       \/ \E t \in { 0 } : SetTimeBody(t)
       \/ \E i \in { 0, 1 } : SetTitleBody(i)
       \/ \E i \in { 0 } : SetSeekpointBody(i)
    /\ pc' = [ pc EXCEPT !.control = "idle" ]
    /\ UNCHANGED << lock, open >>

InitThreads == InitWith(PlaySetups, { 0 }, { CuedSegment }, { Tick(3) \div 1000 })

NextThreads ==
    \/ DemuxLock
    \/ DemuxRun
    \/ DemuxUnlock
    \/ ControlEnter
    \/ ControlRun

SpecThreads == InitThreads /\ [][NextThreads]_vars

----------------------------------------------------------------------------
(* Claims *)

IsFrame(e) == e.kind = "frame"
IsInit(e) == e.kind = "init"

\* The frames, and the initialization payloads, a call handed to the sink.
FramesOf(c) == SelectSeq(c.out, IsFrame)
InitsOf(c) == SelectSeq(c.out, IsInit)

SeekOps == { "SetPosition", "SetTime", "SetTitle", "SetSeekpoint" }

Ordered == CurrentEdition.b_ordered

\* C1: a demux step and a seek request are never both at work: while a seek
\* request reads and writes the shared demux state, Demux is not between
\* taking and releasing its lock.
C1_SeekExcludesDemux ==
    ~(pc.control = "seek" /\ pc.demux \in { "locked", "return" })

\* C2: every demux step returns one of error (-1), end-of-stream (0), or 1
\* with data produced or without; it reads at most one block and hands at
\* most one block, the one it read, to BlockDecode; and a step that reports
\* end-of-stream or reads nothing hands nothing to the sink.
C2_DemuxOutcome ==
    call.op = "Demux" =>
        /\ call.ret \in { -1, 0, 1 }
        /\ call.nRead <= 1
        /\ call.nDecode <= call.nRead
        /\ call.nDecode = 1 => call.ret = 1
        /\ call.out # << >> => call.ret = 1 /\ call.nDecode = 1

\* C2 happens: a step that read one block, decoded it and produced data.
C2_Witness ==
    /\ call.op = "Demux"
    /\ call.ret = 1
    /\ call.nRead = 1
    /\ call.nDecode = 1
    /\ FramesOf(call) # << >>

\* The position a seek moves.
PositionKept ==
    /\ i_block' = i_block
    /\ i_pts' = i_pts
    /\ i_start_pts' = i_start_pts
    /\ i_last_dts' = i_last_dts

\* C3: a request that seeks is a no-op (virtual_segment_c::Seek is not
\* invoked, the position is kept) whenever the duration is not positive, or
\* the fraction is above 1.0, or the time and the fraction are both negative.
C3_SeekRejected ==
    [][ ( /\ call'.op \in SeekOps
          /\ call'.code = "VLC_SUCCESS" \/ call'.code = "VLC_EGENERIC"
          /\ \/ f_duration <= 0
             \/ call'.percent > 2
             \/ call'.date < 0 /\ call'.percent < 0 )
        => ( call'.vseek = << >> /\ PositionKept ) ]_vars

\* The playback state a request may not leave half changed.
PlaybackKept ==
    /\ i_current_edition' = i_current_edition
    /\ p_current_vchapter' = p_current_vchapter
    /\ i_current_title' = i_current_title
    /\ info'.i_seekpoint = info.i_seekpoint
    /\ info'.i_title = info.i_title
    /\ f_duration' = f_duration

\* C4: when a request that seeks returns, either the seek was carried out or
\* edition, chapter cursor, title, reported seekpoint and title, and duration
\* are what they were.
C4_SeekAllOrNothing ==
    [][ call'.op \in SeekOps => ( call'.vseek # << >> \/ PlaybackKept ) ]_vars

\* A demux step has just reported end-of-stream in an ordered edition that
\* no virtual chapter covers.
EosReported ==
    /\ call.op = "Demux"
    /\ call.ret = 0
    /\ Ordered
    /\ p_current_vchapter = NULL

\* C5 as claimed: in an ordered edition with no covering chapter the demux
\* steps report end-of-stream exactly once; the call after the one that
\* reported it does not report it again.
C5_EosExactlyOnce ==
    [][ ( EosReported /\ call'.op = "Demux" ) => call'.ret # 0 ]_vars

\* C5 as amended: in an ordered edition, a demux step that finds or leaves
\* no virtual chapter covering the origin reports end-of-stream and hands
\* nothing to the sink, also when it read a block and also when the step
\* before it reported end-of-stream already.
C5_EosEveryCall ==
    [][ ( /\ call'.op = "Demux"
          /\ Ordered
          /\ p_current_vchapter = NULL \/ p_current_vchapter' = NULL )
        => ( call'.ret = 0 /\ call'.out = << >> ) ]_vars

\* C5 happens: end-of-stream was reported for a block that was there to read.
C5_Witness == EosReported /\ call.nRead = 1

\* The bytes of the first n frames of a block.
RECURSIVE SizeUpTo(_, _)
SizeUpTo(frames, n) == IF n = 0 THEN 0 ELSE SizeUpTo(frames, n - 1) + frames[n].size

\* Frame i of block b can be delivered: it has a payload that can be rebuilt
\* and, with the frames before it, fits the declared size.
Deliverable(b, i) ==
    /\ b.frames[i].buf
    /\ b.frames[i].ok
    /\ SizeUpTo(b.frames, i) <= b.size

\* The number of frames before the first one that cannot be delivered.
GoodPrefixLen(b) ==
    LET ks == { k \in 0 .. Len(b.frames) : \A i \in 1 .. k : Deliverable(b, i) }
    IN CHOOSE k \in ks : \A j \in ks : j <= k

\* Call c handed its block to BlockDecode for a bound track the sink has selected.
DecodedOnActive(c) ==
    /\ c.op = "Demux"
    /\ c.nDecode = 1
    /\ c.blk.tn \in TrackIds
    /\ tracks[c.blk.tn].p_es
    /\ es_state[c.blk.tn]

\* The bytes of the frames a call emitted.
RECURSIVE BytesOf(_)
BytesOf(out) == IF out = << >> THEN 0 ELSE out[1].bytes + BytesOf(Tail(out))

GeneralVideo(t) ==
    /\ tracks[t].cat = "video"
    /\ tracks[t].regime = "general"
    /\ tracks[t].i_default_duration > 0

IsFrameOf(t, e) == e.kind = "frame" /\ e.tk = t

\* C7: on a track in the general regime with a fixed default duration the
\* decode timestamps of successive emitted frames never decrease (within a
\* block, and from the last frame emitted before it when no seek or
\* deselection came in between), and no decode timestamp exceeds the frame's
\* presentation timestamp by more than one default duration.
C7_DtsNonDecreasing ==
    [][ call'.op = "Demux" =>
          \A t \in TrackIds : GeneralVideo(t) =>
            LET fs == SelectSeq(call'.out, LAMBDA e : IsFrameOf(t, e))
            IN /\ \A i \in DOMAIN fs : fs[i].dts <= fs[i].pts + tracks[t].i_default_duration
               /\ \A i \in 1 .. Len(fs) - 1 : fs[i].dts <= fs[i + 1].dts
               /\ (fs # << >> /\ i_last_dts[t] # VLC_TS_INVALID) => i_last_dts[t] <= fs[1].dts
      ]_vars

\* BlockDecode meets an error in block b: no track has its number, its track
\* is unbound, or one of its frames cannot be delivered.
BadBlock(b) ==
    \/ b.tn \notin TrackIds
    \/ ~tracks[b.tn].p_es
    \/ GoodPrefixLen(b) < Len(b.frames)

\* C8: an error BlockDecode meets in a block never aborts the session: the
\* demux step that handed the block over returns 1, neither error nor
\* end-of-stream, and leaves the read position on the next block.
C8_ErrorsAbsorbed ==
    [][ ( call'.op = "Demux" /\ call'.nDecode = 1 /\ BadBlock(call'.blk) )
        => ( call'.ret = 1 /\ i_block' = i_block + 1 ) ]_vars

\* C8 happens: a block no track claims was read, and the step returned 1.
C8_Witness ==
    /\ call.op = "Demux"
    /\ call.nDecode = 1
    /\ call.blk.tn \notin TrackIds
    /\ call.ret = 1
    /\ i_block < NumBlocks

\* C9: a track with a stored initialization payload gets it exactly once per
\* activation: since the track was last seen inactive (or since the start)
\* the payload was emitted at most once, and once if a frame was emitted; in
\* a call it comes before the frames; and nothing is emitted for a track the
\* sink has deselected.
C9_InitOncePerActivation ==
    \A t \in TrackIds : tracks[t].i_data_init > 0 =>
        /\ act[t].inits <= 1
        /\ act[t].frames => act[t].inits = 1
        /\ call.op = "Demux" =>
            LET mine == SelectSeq(call.out, LAMBDA e : e.tk = t)
            IN /\ \A i \in DOMAIN mine : IsInit(mine[i]) => i = 1
               /\ ~es_state[t] => mine = << >>

\* The last-decode-timestamp of every track is at least what it was.
LastDtsKept == \A t \in TrackIds : i_last_dts'[t] >= i_last_dts[t]

\* C10: the last-decode-timestamp of a track never decreases from one block
\* of the track to the next unless a seek or a chapter switch came in
\* between; stated for the case the claim singles out: a demux step that
\* decodes a block of a track the sink has deselected (such a step neither
\* seeks nor switches chapter) does not move any track's cursor backwards.
C10_InactiveKeepsLastDts ==
    [][ ( /\ call'.op = "Demux"
          /\ call'.nDecode = 1
          /\ call'.blk.tn \in TrackIds
          /\ ~es_state[call'.blk.tn] )
        => LastDtsKept ]_vars

\* The same for every demux step that decodes a block, the track selected or not.
C10_LastDtsNeverMovesBack ==
    [][ ( call'.op = "Demux" /\ call'.nDecode = 1 ) => LastDtsKept ]_vars

\* A file Open must refuse: no valid segment, or a primary segment with
\* neither a cluster nor a stored edition.
NoUsableSegment(f) == ~f.segment \/ (~f.cluster /\ ~f.editions)

\* C11: when Open has returned on a file with no valid segment, or whose
\* primary segment has neither a cluster nor a stored edition, it has
\* returned an error and nothing it created is still allocated, the I/O
\* callback and the EBML stream included.
C11_OpenFailureReleasesAll ==
    ( open.pc = "done" /\ NoUsableSegment(open.file) )
        => ( open.ret = "VLC_EGENERIC" /\ open.heap = { } )

\* The queries that answer through an output value.
ValueQueries == { "GetLength", "GetPosition", "GetTime", "GetAttachments", "GetTitleInfo" }

\* The queries that need the duration.
DurationQueries == { "GetLength", "GetPosition", "SetPosition" }

\* C12: a query that returns success has written its output value (no
\* allocation having failed), and with an unknown duration (<= 0)
\* get-duration, get-position and set-position return failure.
C12_QueryAnswersOrFails ==
    /\ ( call.op \in ValueQueries /\ ~call.oom /\ call.code = "VLC_SUCCESS" ) => call.wrote
    /\ ( call.op \in DurationQueries /\ f_duration <= 0 ) => call.code = "VLC_EGENERIC"

\* C14: when an allocation fails while the attachment list or the title
\* list is built, the query returns VLC_ENOMEM.
C14_AllocFailureReported ==
    ( call.op \in { "GetAttachments", "GetTitleInfo" } /\ call.oom )
        => call.code = "VLC_ENOMEM"

\* C13: every clock reference a demux step publishes is greater than the
\* one published before it.
C13_ClockStrictlyIncreasing ==
    [][ \A i \in DOMAIN call'.pcr_out :
            /\ i = 1 => call'.pcr_out[i] > sink_pcr
            /\ i > 1 => call'.pcr_out[i] > call'.pcr_out[i - 1] ]_vars

\* A demux step has published a clock reference after an earlier one.
C13_Witness ==
    /\ call.op = "Demux"
    /\ call.pcr_out # << >>
    /\ call.pcr_out[1] > VLC_TS_0 + PcrThreshold

\* C16: a demux step that reads a block publishes a clock reference exactly
\* when the minimum last-decode-timestamp has passed the recorded reference
\* by more than the threshold; the value published is that minimum, and it
\* becomes the recorded reference; otherwise nothing is published and the
\* recorded reference stays.
C16_PublishesNewMinimum ==
    [][ ( call'.op = "Demux" /\ call'.nRead = 1 ) =>
            LET m == MinLastDts(i_last_dts)
            IN IF m > i_pcr + PcrThreshold
               THEN call'.pcr_out = << m >> /\ i_pcr' = m
               ELSE call'.pcr_out = << >> /\ i_pcr' = i_pcr ]_vars

\* What the code does: the value published is the reference recorded before.
C16_PublishesOldReference ==
    [][ ( call'.op = "Demux" /\ call'.nRead = 1 ) =>
            LET m == MinLastDts(i_last_dts)
            IN IF m > i_pcr + PcrThreshold
               THEN call'.pcr_out = << VLC_TS_0 + i_pcr >> /\ i_pcr' = m
               ELSE call'.pcr_out = << >> /\ i_pcr' = i_pcr ]_vars

\* The virtual chapters PreloadLinked has composed.
Composed == open.linked.vchapters

\* C15: in the ordered edition PreloadLinked has composed, each virtual
\* chapter stops where the next one starts, lasts as long as its physical
\* chapter, and the chapters come in declared order; the chapters whose
\* segment was not found are left out and flagged.
C15_VirtualTimelineContiguous ==
    /\ \A i \in DOMAIN Composed :
        LET v == Composed[i]
            ch == open.file.chapters[v.p_chapter]
        IN /\ ch.resolved
           /\ v.i_mk_virtual_stop_time
                = v.i_mk_virtual_start_time + (ch.i_end_time - ch.i_start_time)
           /\ i < Len(Composed) =>
                /\ v.i_mk_virtual_stop_time = Composed[i + 1].i_mk_virtual_start_time
                /\ v.p_chapter < Composed[i + 1].p_chapter
    /\ open.pc \in { "finish", "done", "closed" } /\ open.ret # "VLC_EGENERIC" =>
        \A k \in DOMAIN open.file.chapters :
            IF open.file.chapters[k].resolved
            THEN \E i \in DOMAIN Composed : Composed[i].p_chapter = k
            ELSE k \in open.linked.flagged

\* An edition is composed in which a chapter between two others was
\* skipped, and a chapter of no length is followed by another chapter.
C15_Witness ==
    /\ Len(Composed) >= 2
    /\ \E i \in 1 .. Len(Composed) - 1 :
        /\ Composed[i + 1].p_chapter > Composed[i].p_chapter + 1
        /\ Composed[i].i_mk_virtual_stop_time > 0
    /\ \E i \in DOMAIN Composed :
        Composed[i].i_mk_virtual_stop_time = Composed[i].i_mk_virtual_start_time

\* Frame i of block b passes the bounds check, as do the frames before it.
PassesBounds(b, i) ==
    \A j \in 1 .. i : b.frames[j].buf /\ SizeUpTo(b.frames, j) <= b.size

\* The frames of block b that pass the bounds check and can be rebuilt.
Rebuildable(b) == { i \in DOMAIN b.frames : PassesBounds(b, i) /\ b.frames[i].ok }

\* C17: a frame whose payload cannot be rebuilt is the only one dropped:
\* every frame of the block that passes the bounds check and can be rebuilt
\* is emitted, those after the failed one included.
C17_FailedFrameDroppedAlone ==
    DecodedOnActive(call) =>
        Len(FramesOf(call)) = Cardinality(Rebuildable(call.blk))

\* The call that has just returned is a demux step that went to read a
\* block and found none.
FoundNoBlock(c) ==
    /\ c.op = "Demux"
    /\ ~c.switch
    /\ segment.present
    /\ c.nRead = 0

\* C19: a demux step that finds no block, in an ordered edition with a
\* current chapter, leaves the origin one tick past that chapter's virtual
\* stop and returns 1 without decoding; in every other case it returns 0 and
\* the origin is what it was.
C19_NoBlockOutcome ==
    [][ FoundNoBlock(call') =>
            IF Ordered /\ p_current_vchapter' # NULL
            THEN /\ call'.ret = 1
                 /\ i_pts' = VLC_TS_0 + VChapterOf(i_current_edition, p_current_vchapter')
                                           .i_mk_virtual_stop_time + 1
                 /\ call'.nDecode = 0
                 /\ call'.out = << >>
            ELSE /\ call'.ret = 0
                 /\ i_pts' = i_pts ]_vars

\* A demux step found no block at the end of a chapter of an ordered
\* edition and moved the origin past the chapter's stop.
C19_Witness ==
    /\ FoundNoBlock(call)
    /\ Ordered
    /\ p_current_vchapter # NULL
    /\ call.ret = 1
    /\ i_pts = VLC_TS_0 + VChapterOf(i_current_edition, p_current_vchapter)
                              .i_mk_virtual_stop_time + 1

C20_NotAsked ==
    /\ call.op = "Demux"
    /\ ~call.asked

\* The segment has no more blocks to read.
NoMoreBlocks == i_block >= NumBlocks

\* The last call of the host was a demux step that returned end-of-stream.
EndOfStream == call.op = "Demux" /\ call.ret = 0

ReadPastEdition(c) ==
    /\ c.op = "Demux"
    /\ c.nRead = 1
    /\ Ordered
    /\ p_current_vchapter = NULL

\* C21: in an ordered edition, a demux step that has read a block while no
\* virtual chapter is current returns 0 and BlockDecode is not called: no
\* frame and no initialization payload is emitted for the block.
C21_NoDecodePastEdition ==
    ReadPastEdition(call) =>
        /\ call.ret = 0
        /\ call.nDecode = 0
        /\ call.out = << >>

\* Past the end of an ordered edition a demux step read a sound block of a
\* bound, selected track that still awaits its initialization payload.
C21_Witness ==
    /\ ReadPastEdition(call)
    /\ call.ret = 0
    /\ DecodedOnActive([ call EXCEPT !.nDecode = 1 ])
    /\ GoodPrefixLen(call.blk) = Len(call.blk.frames)
    /\ ~b_inited[call.blk.tn]

\* The timestamps the three regimes give a frame of track tk at origin
\* pts, the category of the track left aside.
RegimeTimestamps(tk, pts, last_dts, b_key, b_discardable) ==
    IF tk.regime = "dts_only" THEN [ pts |-> VLC_TS_INVALID, dts |-> pts ]
    ELSE IF tk.regime = "pts_only" THEN [ pts |-> pts, dts |-> pts ]
    ELSE [ pts |-> pts,
           dts |-> IF b_key \/ b_discardable THEN pts
                   ELSE IF last_dts = VLC_TS_INVALID THEN pts
                   ELSE Min(pts, last_dts + tk.i_default_duration) ]

\* The first frame the step to the next state emits has the timestamps the
\* regime of its track gives it, if its track is one of the tracks ts.
FirstFrameByRegime(ts) ==
    ( call'.op = "Demux" /\ FramesOf(call') # << >> ) =>
        LET e == FramesOf(call')[1]
            tk == tracks[e.tk]
            ts0 == RegimeTimestamps(tk, i_pts' - tk.i_codec_delay, i_last_dts[e.tk],
                                    call'.blk.b_key_picture,
                                    call'.blk.b_discardable_picture)
        IN e.tk \in ts => ( e.pts = ts0.pts /\ e.dts = ts0.dts )

\* C22: the first frame of a block gets its timestamps from the regime of
\* its track (decode-only, presentation-only or general), whatever the
\* category of the track.
C22_RegimeDecides ==
    [][ FirstFrameByRegime(TrackIds) ]_vars

\* What the code does: the regime decides for video tracks; a frame of any
\* other track has presentation = decode = origin.
C22_RegimeDecidesForVideo ==
    [][ /\ FirstFrameByRegime({ t \in TrackIds : tracks[t].cat = "video" })
        /\ ( call'.op = "Demux" /\ FramesOf(call') # << >> ) =>
              LET e == FramesOf(call')[1]
              IN tracks[e.tk].cat # "video" =>
                    ( e.pts = i_pts' - tracks[e.tk].i_codec_delay /\ e.dts = e.pts ) ]_vars

\* The origin frame e was stamped from.
OriginOf(e) ==
    IF tracks[e.tk].cat = "video" /\ tracks[e.tk].regime = "dts_only" THEN e.dts ELSE e.pts

\* The origin of the next grouped frame as claimed: by the category of the
\* track when the default duration is unknown.
NextOriginByCategory(tk, pts) ==
    IF tk.i_default_duration # 0 THEN pts + tk.i_default_duration
    ELSE IF tk.cat # "video" THEN VLC_TS_INVALID
    ELSE pts + 1

\* The pairs of frames the last demux step emitted one after the other.
FramePairs ==
    IF call.op # "Demux" THEN { }
    ELSE { << FramesOf(call)[i], FramesOf(call)[i + 1] >> : i \in 1 .. Len(FramesOf(call)) - 1 }

\* C23: after each emitted frame the origin of the next grouped frame is
\* origin + default duration when the duration is known; otherwise it is
\* invalidated for a non-video track and advanced by one tick for a video
\* track.
C23_NextOriginByCategory ==
    \A p \in FramePairs :
        OriginOf(p[2]) = NextOriginByCategory(tracks[p[1].tk], OriginOf(p[1]))

\* What the code does: with an unknown default duration the origin is
\* invalidated for a packetized track and advanced by one tick for any other.
C23_NextOriginByPacketization ==
    \A p \in FramePairs :
        OriginOf(p[2]) = NextFramePts(tracks[p[1].tk], OriginOf(p[1]))

\* The sample the scan is said to choose: the first one at or after i_pos,
\* the last one when none qualifies.
FirstAtOrAfter(indexes, i_pos) ==
    LET hits == { i \in DOMAIN indexes : indexes[i].i_position >= i_pos }
    IN IF hits = { } THEN Len(indexes)
       ELSE CHOOSE i \in hits : \A j \in hits : i <= j

\* The last request was a seek by fraction, and it was carried out.
SoughtByFraction == call.op = "SetPosition" /\ call.vseek # << >>

\* The approximate byte offset of the last seek by fraction.
ApproxOffset == (call.percent * segment.size) \div 2

C24_TimeBased ==
    /\ SoughtByFraction
    /\ ~segment.b_cues
    /\ Len(segment.indexes) = 2
    /\ segment.indexes[1].i_position < ApproxOffset
    /\ call.vseek[1].global = -1

\* No track has the number of block b.
UnknownTrack(b) == b.tn \notin TrackIds

\* The track of block b has no output (and is not a navigation track).
UnboundTrack(b) ==
    b.tn \in TrackIds /\ tracks[b.tn].cat # "nav" /\ ~tracks[b.tn].p_es

\* The sink reports the track of block b inactive.
InactiveTrack(b) ==
    b.tn \in TrackIds /\ tracks[b.tn].cat # "nav" /\ tracks[b.tn].p_es /\ ~es_state[b.tn]

\* C25: a block handed to BlockDecode whose track number is unknown, whose
\* track is unbound or whose track the sink reports inactive is dropped
\* whole, with no frame and no initialization payload emitted; for an
\* unknown or unbound track no track's b_inited or i_last_dts changes.
C25_BlockDroppedWhole ==
    [][ ( call'.op = "Demux" /\ call'.nDecode = 1 ) =>
            /\ ( UnknownTrack(call'.blk) \/ UnboundTrack(call'.blk)
                 \/ InactiveTrack(call'.blk) ) => call'.out = << >>
            /\ ( UnknownTrack(call'.blk) \/ UnboundTrack(call'.blk) ) =>
                  ( b_inited' = b_inited /\ i_last_dts' = i_last_dts ) ]_vars

\* BlockDecode was handed a sound block of an unbound track while another
\* track had been initialized and had a last-decode-timestamp.
C25_Witness ==
    /\ call.op = "Demux"
    /\ call.nDecode = 1
    /\ UnboundTrack(call.blk)
    /\ GoodPrefixLen(call.blk) = Len(call.blk.frames)
    /\ call.out = << >>
    /\ \E t \in TrackIds : b_inited[t] /\ i_last_dts[t] # VLC_TS_INVALID

\* BlockDecode was handed a block with the number of no track.
C25_UnknownSeen ==
    call.op = "Demux" /\ call.nDecode = 1 /\ UnknownTrack(call.blk)

\* BlockDecode was handed a sound block of a track the sink had unselected
\* after the track was initialized.
C25_InactiveSeen ==
    /\ call.op = "Demux" /\ call.nDecode = 1 /\ InactiveTrack(call.blk)
    /\ GoodPrefixLen(call.blk) = Len(call.blk.frames)

\* Request c names a title that does not exist or has no seekpoint.
TitleOutOfRange(c) ==
    /\ c.op = "SetTitle"
    /\ c.arg \notin 0 .. NumTitles - 1 \/ Len(titles[c.arg + 1].seekpoint) = 0

\* Request c names a seekpoint the current title does not have.
SeekpointOutOfRange(c) ==
    /\ c.op = "SetSeekpoint"
    /\ c.arg \notin 0 .. Len(titles[i_current_title + 1].seekpoint) - 1

\* C26: a set-title or set-seekpoint request whose index is out of range,
\* negative indices included, returns VLC_EGENERIC, does not seek and leaves
\* title, edition, chapter cursor, seekpoint and duration as they were.
C26_BadIndexRejected ==
    [][ ( TitleOutOfRange(call') \/ SeekpointOutOfRange(call') ) =>
            /\ call'.code = "VLC_EGENERIC"
            /\ call'.vseek = << >>
            /\ PlaybackKept ]_vars

\* What the code does for every index but a negative seekpoint index.
C26_BadIndexRejectedUnlessNegative ==
    [][ ( \/ TitleOutOfRange(call')
          \/ SeekpointOutOfRange(call') /\ call'.arg >= 0 ) =>
            /\ call'.code = "VLC_EGENERIC"
            /\ call'.vseek = << >>
            /\ PlaybackKept ]_vars

====
